---- MODULE Spec2Model ----
(***************************************************************************)
(* Model of codex-rs/core/src/tools/events.rs: the ToolEmitter, its        *)
(* emission dispatcher (emit), begin, the outcome normalizer (finish) and  *)
(* their use of the session's event stream and of the lock-guarded turn    *)
(* diff tracker, for several tool invocations running as concurrent tasks. *)
(***************************************************************************)
EXTENDS Integers, Sequences, FiniteSets, TLC

\* ------------------------------------------------------------------------
\* Bounds and input domains
\* ------------------------------------------------------------------------

\* Number of tool invocations running concurrently within the turn.
NumTasks == 2

Tasks == 1..NumTasks

\* Option<T>
None == [tag |-> "None"]
Some(v) == [tag |-> "Some", value |-> v]

\* Patch change maps (path -> file change): one file added; one file
\* updated and another deleted.
AddOne == [p \in {"a.txt"} |-> "Add"]
UpdateTwo == [p \in {"a.txt", "b.txt"} |-> IF p = "a.txt" THEN "Update" ELSE "Delete"]

\* ExecToolCallOutput values produced by the executor (stream texts, exit
\* code, duration in milliseconds).
ExecOutput(code, out, err, agg, dur) ==
    [exit_code |-> code, stdout |-> [text |-> out], stderr |-> [text |-> err],
     aggregated_output |-> [text |-> agg], duration |-> dur]

Outputs == { ExecOutput(0, "done", "", "done", 5),
             ExecOutput(2, "part", "boom", "partboom", 7) }

\* CodexErr values: the two sandbox errors that carry an output, and errors
\* that carry none.
SandboxTimeout(o) == [tag |-> "Sandbox", err |-> [tag |-> "Timeout", output |-> o]]
SandboxDenied(o) == [tag |-> "Sandbox", err |-> [tag |-> "Denied", output |-> o]]
OtherCodexErrs == { [tag |-> "Sandbox", err |-> [tag |-> "Signal", signal |-> 9]],
                    [tag |-> "Interrupted"] }
CodexErrs == {SandboxTimeout(o) : o \in Outputs}
                \cup {SandboxDenied(ExecOutput(1, "", "denied", "denied", 3))}
                \cup OtherCodexErrs

\* Rejection texts a pre-execution approval gate may produce.
RejectionTexts == {"rejected by user", "rejected by user: too risky"}

\* Result<ExecToolCallOutput, ToolError>: the argument of finish.
OkOut(o) == [tag |-> "Ok", output |-> o]
ErrCodex(e) == [tag |-> "Err", err |-> [tag |-> "Codex", err |-> e]]
ErrRejected(m) == [tag |-> "Err", err |-> [tag |-> "Rejected", msg |-> m]]
ExecResults == {OkOut(o) : o \in Outputs} \cup {ErrCodex(e) : e \in CodexErrs}
                 \cup {ErrRejected(m) : m \in RejectionTexts}

\* anyhow::Result<Option<String>>: what get_unified_diff may answer.
DiffErr == [tag |-> "Err"]
DiffOk(opt) == [tag |-> "Ok", value |-> opt]
DiffResults == {DiffErr, DiffOk(None), DiffOk(Some("")), DiffOk(Some("--- a.txt\n+++ a.txt\n"))}

\* ------------------------------------------------------------------------
\* Collaborators outside events.rs
\* ------------------------------------------------------------------------

\* parse_command: pure and total; one structured token per command line.
parse_command(command) == << [tag |-> "Unknown", cmd |-> command] >>

\* super::format_exec_output_for_model: the model-facing rendering of an
\* output (exit code, duration and the aggregated text).
format_exec_output_for_model(output) ==
    "Exit code: " \o ToString(output.exit_code)
      \o "\nWall time: " \o ToString(output.duration) \o " ms"
      \o "\nOutput:\n" \o output.aggregated_output.text

\* super::format_exec_output_str: the display rendering of an output.
format_exec_output_str(output) ==
    "Output:\n" \o output.aggregated_output.text

\* The Debug rendering ({err:?}) of a CodexErr that carries no output.
DebugFmt(err) ==
    IF err.tag = "Sandbox"
    THEN "Sandbox(Signal(" \o ToString(err.err.signal) \o "))"
    ELSE err.tag

\* ------------------------------------------------------------------------
\* ToolEventCtx, ToolEventStage, ToolEmitter
\* ------------------------------------------------------------------------

TurnId == "turn-1"
CallId(t) == "call-" \o ToString(t)

\* ToolEventCtx::new
ToolEventCtx(turn, call_id, turn_diff_tracker) ==
    [turn |-> [sub_id |-> turn], call_id |-> call_id,
     turn_diff_tracker |-> turn_diff_tracker]

StageBegin == [tag |-> "Begin"]
StageSuccess(output) == [tag |-> "Success", output |-> output]
FailureOutput(output) == [tag |-> "Output", output |-> output]
FailureMessage(message) == [tag |-> "Message", message |-> message]
StageFailure(failure) == [tag |-> "Failure", failure |-> failure]

\* ToolEmitter::shell
shell(command, cwd, source) ==
    [variant |-> "Shell", command |-> command, cwd |-> cwd, source |-> source,
     parsed_cmd |-> parse_command(command)]

\* ToolEmitter::apply_patch
apply_patch(changes, auto_approved) ==
    [variant |-> "ApplyPatch", changes |-> changes, auto_approved |-> auto_approved]

\* ToolEmitter::unified_exec
unified_exec(command, cwd, source, interaction_input) ==
    [variant |-> "UnifiedExec", command |-> command, cwd |-> cwd, source |-> source,
     interaction_input |-> interaction_input, parsed_cmd |-> parse_command(command)]

\* The emitters the callers construct: two of each variant, differing in
\* every field.
Emitters ==
    { shell(<<"ls">>, "/repo", "Agent"),
      shell(<<"echo", "hi">>, "/repo/src", "UserShell"),
      apply_patch(AddOne, TRUE),
      apply_patch(UpdateTwo, FALSE),
      unified_exec(<<"python3">>, "/repo", "UnifiedExecStartup", None),
      unified_exec(<<"python3">>, "/tmp", "UnifiedExecInteraction", Some("print(1)\n")) }

\* ------------------------------------------------------------------------
\* Event payload builders and the emission dispatcher
\* ------------------------------------------------------------------------

\* The EventMsg::ExecCommandBegin built by emit_exec_command_begin.
emit_exec_command_begin(ctx, command, cwd, parsed_cmd, source, interaction_input) ==
    [type |-> "ExecCommandBegin",
     call_id |-> ctx.call_id,
     turn_id |-> ctx.turn.sub_id,
     command |-> command,
     cwd |-> cwd,
     parsed_cmd |-> parsed_cmd,
     source |-> source,
     interaction_input |-> interaction_input]

ExecEventMetadata(command, cwd, parsed_cmd, source, interaction_input) ==
    [command |-> command, cwd |-> cwd, parsed_cmd |-> parsed_cmd, source |-> source,
     interaction_input |-> interaction_input]

\* A payload that does not carry the duration over.
payload_from_output_no_duration(output) ==
    [stdout |-> output.stdout.text,
     stderr |-> output.stderr.text,
     aggregated_output |-> output.aggregated_output.text,
     exit_code |-> output.exit_code,
     duration |-> 0,
     formatted_output |-> format_exec_output_str(output)]

payload_from_output(output) ==
    [stdout |-> output.stdout.text,
     stderr |-> output.stderr.text,
     aggregated_output |-> output.aggregated_output.text,
     exit_code |-> output.exit_code,
     duration |-> output.duration,
     formatted_output |-> format_exec_output_str(output)]

\* A message payload that reports the generic failure code 1.
payload_from_message_exit1(message) ==
    [stdout |-> "",
     stderr |-> message,
     aggregated_output |-> message,
     exit_code |-> 1,
     duration |-> 0,
     formatted_output |-> message]

\* A message payload that also puts the message into stdout.
payload_from_message_stdout(message) ==
    [stdout |-> message,
     stderr |-> message,
     aggregated_output |-> message,
     exit_code |-> -1,
     duration |-> 0,
     formatted_output |-> message]

\* The ExecCommandResultPayload literal of the Failure(Message) arms.
payload_from_message(message) ==
    [stdout |-> "",
     stderr |-> message,
     aggregated_output |-> message,
     exit_code |-> -1,
     duration |-> 0,
     formatted_output |-> message]

\* The EventMsg::ExecCommandEnd built by emit_exec_end.
emit_exec_end(ctx, meta, payload) ==
    [type |-> "ExecCommandEnd",
     call_id |-> ctx.call_id,
     turn_id |-> ctx.turn.sub_id,
     command |-> meta.command,
     cwd |-> meta.cwd,
     parsed_cmd |-> meta.parsed_cmd,
     source |-> meta.source,
     interaction_input |-> meta.interaction_input,
     stdout |-> payload.stdout,
     stderr |-> payload.stderr,
     aggregated_output |-> payload.aggregated_output,
     exit_code |-> payload.exit_code,
     duration |-> payload.duration,
     formatted_output |-> payload.formatted_output]

\* The EventMsg::PatchApplyBegin built by the (ApplyPatch, Begin) arm.
PatchApplyBeginEvent(ctx, changes, auto_approved) ==
    [type |-> "PatchApplyBegin",
     call_id |-> ctx.call_id,
     auto_approved |-> auto_approved,
     changes |-> changes]

\* A patch-end event that takes its identifier from the turn instead of the
\* call.
PatchApplyEndEvent_turn_id(ctx, stdout, stderr, success) ==
    [type |-> "PatchApplyEnd",
     call_id |-> ctx.turn.sub_id,
     stdout |-> stdout,
     stderr |-> stderr,
     success |-> success]

\* The EventMsg::PatchApplyEnd built by emit_patch_end.
PatchApplyEndEvent(ctx, stdout, stderr, success) ==
    [type |-> "PatchApplyEnd",
     call_id |-> ctx.call_id,
     stdout |-> stdout,
     stderr |-> stderr,
     success |-> success]

\* The EventMsg::TurnDiff built by emit_patch_end.
TurnDiffEvent(unified_diff) ==
    [type |-> "TurnDiff", unified_diff |-> unified_diff]

\* Metadata that reports every command as started by the agent.
MetaOf_agent(self) ==
    ExecEventMetadata(self.command, self.cwd, self.parsed_cmd, "Agent",
                      IF self.variant = "UnifiedExec" THEN self.interaction_input ELSE None)

\* The metadata each Shell / UnifiedExec arm of emit builds from self.
MetaOf(self) ==
    ExecEventMetadata(self.command, self.cwd, self.parsed_cmd, self.source,
                      IF self.variant = "UnifiedExec" THEN self.interaction_input ELSE None)

\* The Shell arms of the match in ToolEmitter::emit: the primary events the
\* arm for (self, stage) sends, in order.
emit_Shell(self, ctx, stage) ==
    CASE stage.tag = "Begin" ->
           << emit_exec_command_begin(ctx, self.command, self.cwd, self.parsed_cmd,
                                      self.source, None) >>
      [] stage.tag = "Success" ->
           << emit_exec_end(ctx, MetaOf(self), payload_from_output(stage.output)) >>
      [] stage.tag = "Failure" /\ stage.failure.tag = "Output" ->
           << emit_exec_end(ctx, MetaOf(self), payload_from_output(stage.failure.output)) >>
      [] stage.tag = "Failure" /\ stage.failure.tag = "Message" ->
           << emit_exec_end(ctx, MetaOf(self), payload_from_message(stage.failure.message)) >>

\* A dispatcher that lets the (ApplyPatch, Failure(Message)) combination
\* fall through without an event.
emit_ApplyPatch_dropping(self, ctx, stage) ==
    CASE stage.tag = "Begin" ->
           << PatchApplyBeginEvent(ctx, self.changes, self.auto_approved) >>
      [] stage.tag = "Success" ->
           << PatchApplyEndEvent(ctx, stage.output.stdout.text, stage.output.stderr.text,
                                 stage.output.exit_code = 0) >>
      [] stage.tag = "Failure" /\ stage.failure.tag = "Output" ->
           << PatchApplyEndEvent(ctx, stage.failure.output.stdout.text,
                                 stage.failure.output.stderr.text,
                                 stage.failure.output.exit_code = 0) >>
      [] stage.tag = "Failure" /\ stage.failure.tag = "Message" ->
           << >>

\* A dispatcher whose (ApplyPatch, Failure(Output)) arm always reports
\* success = false.
emit_ApplyPatch_failure_false(self, ctx, stage) ==
    CASE stage.tag = "Begin" ->
           << PatchApplyBeginEvent(ctx, self.changes, self.auto_approved) >>
      [] stage.tag = "Success" ->
           << PatchApplyEndEvent(ctx, stage.output.stdout.text, stage.output.stderr.text,
                                 stage.output.exit_code = 0) >>
      [] stage.tag = "Failure" /\ stage.failure.tag = "Output" ->
           << PatchApplyEndEvent(ctx, stage.failure.output.stdout.text,
                                 stage.failure.output.stderr.text, FALSE) >>
      [] stage.tag = "Failure" /\ stage.failure.tag = "Message" ->
           << PatchApplyEndEvent(ctx, "", stage.failure.message, FALSE) >>

\* The ApplyPatch arms of the match in ToolEmitter::emit.  The tracker calls
\* around them and the turn-diff event are steps of the tasks further below.
emit_ApplyPatch(self, ctx, stage) ==
    CASE stage.tag = "Begin" ->
           << PatchApplyBeginEvent(ctx, self.changes, self.auto_approved) >>
      [] stage.tag = "Success" ->
           << PatchApplyEndEvent(ctx, stage.output.stdout.text, stage.output.stderr.text,
                                 stage.output.exit_code = 0) >>
      [] stage.tag = "Failure" /\ stage.failure.tag = "Output" ->
           << PatchApplyEndEvent(ctx, stage.failure.output.stdout.text,
                                 stage.failure.output.stderr.text,
                                 stage.failure.output.exit_code = 0) >>
      [] stage.tag = "Failure" /\ stage.failure.tag = "Message" ->
           << PatchApplyEndEvent(ctx, "", stage.failure.message, FALSE) >>

\* The UnifiedExec arms of the match in ToolEmitter::emit.
emit_UnifiedExec(self, ctx, stage) ==
    CASE stage.tag = "Begin" ->
           << emit_exec_command_begin(ctx, self.command, self.cwd, self.parsed_cmd,
                                      self.source, self.interaction_input) >>
      [] stage.tag = "Success" ->
           << emit_exec_end(ctx, MetaOf(self), payload_from_output(stage.output)) >>
      [] stage.tag = "Failure" /\ stage.failure.tag = "Output" ->
           << emit_exec_end(ctx, MetaOf(self), payload_from_output(stage.failure.output)) >>
      [] stage.tag = "Failure" /\ stage.failure.tag = "Message" ->
           << emit_exec_end(ctx, MetaOf(self), payload_from_message(stage.failure.message)) >>

\* ToolEmitter::emit: match (self, stage).
emit(self, ctx, stage) ==
    CASE self.variant = "Shell" -> emit_Shell(self, ctx, stage)
      [] self.variant = "ApplyPatch" -> emit_ApplyPatch(self, ctx, stage)
      [] self.variant = "UnifiedExec" -> emit_UnifiedExec(self, ctx, stage)

\* ------------------------------------------------------------------------
\* The outcome normalizer
\* ------------------------------------------------------------------------

\* Result<String, FunctionCallError>
Ok(content) == [tag |-> "Ok", value |-> content]
RespondToModel(content) == [tag |-> "Err", err |-> [tag |-> "RespondToModel", message |-> content]]

IsSandboxWithOutput(e) ==
    e.tag = "Sandbox" /\ e.err.tag \in {"Timeout", "Denied"}

\* A Rejected arm that passes every rejection text through.
normalized_passthrough(msg) == msg

\* The normalization of a rejection text in the Rejected arm of finish.
normalized(msg) ==
    IF msg = "rejected by user" THEN "exec command rejected by user" ELSE msg

\* A finish that returns Ok for every output, whatever its exit code.
finish_always_ok(out) ==
    IF out.tag = "Ok" THEN
        [event |-> StageSuccess(out.output),
         result |-> Ok(format_exec_output_for_model(out.output))]
    ELSE IF out.err.tag = "Codex" /\ IsSandboxWithOutput(out.err.err) THEN
        [event |-> StageFailure(FailureOutput(out.err.err.err.output)),
         result |-> RespondToModel(format_exec_output_for_model(out.err.err.err.output))]
    ELSE IF out.err.tag = "Codex" THEN
        [event |-> StageFailure(FailureMessage("execution error: " \o DebugFmt(out.err.err))),
         result |-> RespondToModel("execution error: " \o DebugFmt(out.err.err))]
    ELSE
        [event |-> StageFailure(FailureMessage(normalized(out.err.msg))),
         result |-> RespondToModel(normalized(out.err.msg))]

\* ToolEmitter::finish, the match on out: the stage to emit and the result
\* to return.
finish(out) ==
    IF out.tag = "Ok" THEN
        [event |-> StageSuccess(out.output),
         result |-> IF out.output.exit_code = 0
                    THEN Ok(format_exec_output_for_model(out.output))
                    ELSE RespondToModel(format_exec_output_for_model(out.output))]
    ELSE IF out.err.tag = "Codex" /\ IsSandboxWithOutput(out.err.err) THEN
        [event |-> StageFailure(FailureOutput(out.err.err.err.output)),
         result |-> RespondToModel(format_exec_output_for_model(out.err.err.err.output))]
    ELSE IF out.err.tag = "Codex" THEN
        [event |-> StageFailure(FailureMessage("execution error: " \o DebugFmt(out.err.err))),
         result |-> RespondToModel("execution error: " \o DebugFmt(out.err.err))]
    ELSE
        [event |-> StageFailure(FailureMessage(normalized(out.err.msg))),
         result |-> RespondToModel(normalized(out.err.msg))]

\* ------------------------------------------------------------------------
\* State
\* ------------------------------------------------------------------------

VARIABLES
    pc,            \* pc[t]: where task t stands in construct / begin / finish
    emitter,       \* emitter[t]: the ToolEmitter the caller constructed
    ctx,           \* ctx[t]: the ToolEventCtx passed to begin and finish
    out,           \* out[t]: the argument `out` of finish
    stage,         \* stage[t]: the local `event` of finish (the stage to emit)
    result,        \* result[t]: the local `result` of finish
    returned,      \* returned[t]: the value finish returned to its caller
    unified_diff,  \* unified_diff[t]: the local `unified_diff` of emit_patch_end
    events,        \* the events delivered by Session::send_event, in order
    lock,          \* owner of the tracker mutex guard, 0 when it is free
    tracker,       \* the diff tracker: paths whose pre-image it has snapshotted
    trackerCalls   \* trackerCalls[t]: the tracker calls task t made, in order

vars == <<pc, emitter, ctx, out, stage, result, returned, unified_diff,
          events, lock, tracker, trackerCalls>>

\* The shared tracker handle of the turn (SharedTurnDiffTracker).
SharedTracker == "turn_diff_tracker"

\* Session::send_event(ctx.turn, msg): the message joins the event stream.
send_event(log, t, turn, msg) == Append(log, [by |-> t, turn |-> turn, msg |-> msg])

\* Sends each message of msgs in order.
RECURSIVE send_all(_, _, _, _)
send_all(log, t, turn, msgs) ==
    IF msgs = <<>> THEN log
    ELSE send_all(send_event(log, t, turn, Head(msgs)), t, turn, Tail(msgs))

\* TurnDiffTracker::on_patch_begin: snapshots the pre-image of every path of
\* changes it does not track yet.
on_patch_begin(tr, changes) == tr \cup DOMAIN changes

Init ==
    /\ pc = [t \in Tasks |-> "new"]
    /\ emitter = [t \in Tasks |-> None]
    /\ ctx = [t \in Tasks |-> None]
    /\ out = [t \in Tasks |-> None]
    /\ stage = [t \in Tasks |-> None]
    /\ result = [t \in Tasks |-> None]
    /\ returned = [t \in Tasks |-> None]
    /\ unified_diff = [t \in Tasks |-> None]
    /\ events = <<>>
    /\ lock = 0
    /\ tracker = {}
    /\ trackerCalls = [t \in Tasks |-> <<>>]

\* ------------------------------------------------------------------------
\* Steps of one invocation.  A task is suspended only at lock().await and
\* at send_event(..).await; each action runs from one such point to the next.
\* ------------------------------------------------------------------------

\* The caller builds the emitter (shell / apply_patch / unified_exec) and
\* the context of the invocation.
Construct(t) ==
    /\ pc[t] = "new"
    /\ \E e \in Emitters, tr \in {None, Some(SharedTracker)} :
         /\ emitter' = [emitter EXCEPT ![t] = e]
         /\ ctx' = [ctx EXCEPT ![t] = ToolEventCtx(TurnId, CallId(t), tr)]
    /\ pc' = [pc EXCEPT ![t] = "ready"]
    /\ UNCHANGED <<out, stage, result, returned, unified_diff, events, lock,
                   tracker, trackerCalls>>

\* A Begin arm that goes straight to the send, tracker or not.
begin_entry_no_tracker(self, c) == "begin_send"

\* Where emit(ctx, Begin) first suspends: at tracker.lock().await for an
\* ApplyPatch emitter with a tracker attached, at send_event otherwise.
begin_entry(self, c) ==
    IF self.variant = "ApplyPatch" /\ c.turn_diff_tracker # None
    THEN "begin_lock" ELSE "begin_send"

\* ToolEmitter::begin: self.emit(ctx, ToolEventStage::Begin).
Begin(t) ==
    /\ pc[t] = "ready"
    /\ stage' = [stage EXCEPT ![t] = StageBegin]
    /\ pc' = [pc EXCEPT ![t] = begin_entry(emitter[t], ctx[t])]
    /\ UNCHANGED <<emitter, ctx, out, result, returned, unified_diff, events,
                   lock, tracker, trackerCalls>>

\* (ApplyPatch, Begin): let mut guard = tracker.lock().await
BeginLock(t) ==
    /\ pc[t] = "begin_lock"
    /\ lock = 0
    /\ lock' = t
    /\ pc' = [pc EXCEPT ![t] = "begin_locked"]
    /\ UNCHANGED <<emitter, ctx, out, stage, result, returned, unified_diff,
                   events, tracker, trackerCalls>>

\* (ApplyPatch, Begin): guard.on_patch_begin(changes)
BeginNotify(t) ==
    /\ pc[t] = "begin_locked"
    /\ tracker' = on_patch_begin(tracker, emitter[t].changes)
    /\ trackerCalls' = [trackerCalls EXCEPT ![t] =
           Append(@, [op |-> "on_patch_begin", changes |-> emitter[t].changes,
                      guard |-> lock])]
    /\ pc' = [pc EXCEPT ![t] = "begin_unlock"]
    /\ UNCHANGED <<emitter, ctx, out, stage, result, returned, unified_diff,
                   events, lock>>

\* A Begin arm whose guard outlives the if-let block: the lock is still held
\* when the patch-begin event is sent.
BeginUnlock_keep(t) ==
    /\ pc[t] = "begin_unlock"
    /\ pc' = [pc EXCEPT ![t] = "begin_send"]
    /\ UNCHANGED <<emitter, ctx, out, stage, result, returned, unified_diff,
                   events, lock, tracker, trackerCalls>>

\* (ApplyPatch, Begin): the guard is dropped at the end of the if-let block.
BeginUnlock(t) ==
    /\ pc[t] = "begin_unlock"
    /\ lock' = 0
    /\ pc' = [pc EXCEPT ![t] = "begin_send"]
    /\ UNCHANGED <<emitter, ctx, out, stage, result, returned, unified_diff,
                   events, tracker, trackerCalls>>

\* The begin event of the arm is sent and begin returns to the caller.
BeginSend(t) ==
    /\ pc[t] = "begin_send"
    /\ events' = send_all(events, t, ctx[t].turn.sub_id, emit(emitter[t], ctx[t], stage[t]))
    /\ pc' = [pc EXCEPT ![t] = "running"]
    /\ UNCHANGED <<emitter, ctx, out, stage, result, returned, unified_diff,
                   lock, tracker, trackerCalls>>

\* A finish that hands its result to the caller before emitting.
Finish_return_first(t) ==
    /\ pc[t] = "running"
    /\ \E o \in ExecResults :
         /\ out' = [out EXCEPT ![t] = o]
         /\ stage' = [stage EXCEPT ![t] = finish(o).event]
         /\ result' = [result EXCEPT ![t] = finish(o).result]
         /\ returned' = [returned EXCEPT ![t] = finish(o).result]
    /\ pc' = [pc EXCEPT ![t] = "end_send"]
    /\ UNCHANGED <<emitter, ctx, unified_diff, events, lock, tracker, trackerCalls>>

\* ToolEmitter::finish up to self.emit(ctx, event).await: the executor's
\* result is classified into the stage to emit and the result to return.
Finish(t) ==
    /\ pc[t] = "running"
    /\ \E o \in ExecResults :
         /\ out' = [out EXCEPT ![t] = o]
         /\ stage' = [stage EXCEPT ![t] = finish(o).event]
         /\ result' = [result EXCEPT ![t] = finish(o).result]
    /\ pc' = [pc EXCEPT ![t] = "end_send"]
    /\ UNCHANGED <<emitter, ctx, returned, unified_diff, events, lock, tracker,
                   trackerCalls>>

\* An end path that consults the tracker for every emitter variant.
end_next_any_variant(self, c) ==
    IF c.turn_diff_tracker # None THEN "diff_lock" ELSE "done"

\* Where the task goes once the end event is sent: emit_patch_end goes on to
\* the tracker when one is attached; every other path returns from finish.
end_next(self, c) ==
    IF self.variant = "ApplyPatch" /\ c.turn_diff_tracker # None
    THEN "diff_lock" ELSE "done"

\* The end event of the arm is sent (emit_exec_end, or the first send of
\* emit_patch_end); finish returns `result` unless the tracker is consulted.
EndSend(t) ==
    /\ pc[t] = "end_send"
    /\ events' = send_all(events, t, ctx[t].turn.sub_id, emit(emitter[t], ctx[t], stage[t]))
    /\ pc' = [pc EXCEPT ![t] = end_next(emitter[t], ctx[t])]
    /\ returned' = [returned EXCEPT ![t] =
           IF end_next(emitter[t], ctx[t]) = "done" THEN result[t] ELSE @]
    /\ UNCHANGED <<emitter, ctx, out, stage, result, unified_diff, lock, tracker,
                   trackerCalls>>

\* An emit_patch_end that goes on to the tracker without waiting for the
\* lock to be free.
DiffLock_nowait(t) ==
    /\ pc[t] = "diff_lock"
    /\ lock' = t
    /\ pc' = [pc EXCEPT ![t] = "diff_locked"]
    /\ UNCHANGED <<emitter, ctx, out, stage, result, returned, unified_diff,
                   events, tracker, trackerCalls>>

\* emit_patch_end: let mut guard = tracker.lock().await
DiffLock(t) ==
    /\ pc[t] = "diff_lock"
    /\ lock = 0
    /\ lock' = t
    /\ pc' = [pc EXCEPT ![t] = "diff_locked"]
    /\ UNCHANGED <<emitter, ctx, out, stage, result, returned, unified_diff,
                   events, tracker, trackerCalls>>

\* emit_patch_end: guard.get_unified_diff(); the diff engine may answer an
\* error, no diff, or a diff text.
DiffRead(t) ==
    /\ pc[t] = "diff_locked"
    /\ \E r \in DiffResults :
         /\ unified_diff' = [unified_diff EXCEPT ![t] = r]
         /\ trackerCalls' = [trackerCalls EXCEPT ![t] =
                Append(@, [op |-> "get_unified_diff", answer |-> r, guard |-> lock])]
    /\ pc' = [pc EXCEPT ![t] = "diff_unlock"]
    /\ UNCHANGED <<emitter, ctx, out, stage, result, returned, events, lock, tracker>>

\* An emit_patch_end that never sends the diff it read.
diff_next_never(r) == "done"

\* if let Ok(Some(unified_diff)) = unified_diff
diff_next(r) ==
    IF r.tag = "Ok" /\ r.value.tag = "Some" THEN "diff_send" ELSE "done"

\* An emit_patch_end whose guard is not scoped to the block that reads the
\* diff: the lock is still held when the turn-diff event is sent.
DiffUnlock_keep(t) ==
    /\ pc[t] = "diff_unlock"
    /\ lock' = IF diff_next(unified_diff[t]) = "done" THEN 0 ELSE lock
    /\ pc' = [pc EXCEPT ![t] = diff_next(unified_diff[t])]
    /\ returned' = [returned EXCEPT ![t] =
           IF diff_next(unified_diff[t]) = "done" THEN result[t] ELSE @]
    /\ UNCHANGED <<emitter, ctx, out, stage, result, unified_diff, events,
                   tracker, trackerCalls>>

\* An emit_patch_end that propagates a diff-computation error to the caller
\* of finish instead of swallowing it.
DiffUnlock_propagate(t) ==
    /\ pc[t] = "diff_unlock"
    /\ lock' = 0
    /\ pc' = [pc EXCEPT ![t] = diff_next(unified_diff[t])]
    /\ returned' = [returned EXCEPT ![t] =
           IF diff_next(unified_diff[t]) = "done"
           THEN (IF unified_diff[t].tag = "Err"
                 THEN RespondToModel("failed to compute unified diff")
                 ELSE result[t])
           ELSE @]
    /\ UNCHANGED <<emitter, ctx, out, stage, result, unified_diff, events,
                   tracker, trackerCalls>>

\* emit_patch_end: the guard is dropped at the end of the block; without a
\* diff to send, emit_patch_end and finish return.
DiffUnlock(t) ==
    /\ pc[t] = "diff_unlock"
    /\ lock' = 0
    /\ pc' = [pc EXCEPT ![t] = diff_next(unified_diff[t])]
    /\ returned' = [returned EXCEPT ![t] =
           IF diff_next(unified_diff[t]) = "done" THEN result[t] ELSE @]
    /\ UNCHANGED <<emitter, ctx, out, stage, result, unified_diff, events,
                   tracker, trackerCalls>>

\* emit_patch_end: the turn-diff event is sent and finish returns.
DiffSend(t) ==
    /\ pc[t] = "diff_send"
    /\ events' = send_event(events, t, ctx[t].turn.sub_id,
                            TurnDiffEvent(unified_diff[t].value.value))
    /\ pc' = [pc EXCEPT ![t] = "done"]
    /\ returned' = [returned EXCEPT ![t] = result[t]]
    /\ UNCHANGED <<emitter, ctx, out, stage, result, unified_diff, lock, tracker,
                   trackerCalls>>

Next ==
    \E t \in Tasks :
        \/ Construct(t)
        \/ Begin(t)
        \/ BeginLock(t)
        \/ BeginNotify(t)
        \/ BeginUnlock(t)
        \/ BeginSend(t)
        \/ Finish(t)
        \/ EndSend(t)
        \/ DiffLock(t)
        \/ DiffRead(t)
        \/ DiffUnlock(t)
        \/ DiffSend(t)

Spec == Init /\ [][Next]_vars

\* ------------------------------------------------------------------------
\* Properties
\* ------------------------------------------------------------------------

BeginTypes == {"ExecCommandBegin", "PatchApplyBegin"}
EndTypes == {"ExecCommandEnd", "PatchApplyEnd"}

\* The primary (begin / end) events of the stream that carry call id cid.
PrimaryOf(cid) ==
    SelectSeq(events, LAMBDA e : e.msg.type # "TurnDiff" /\ e.msg.call_id = cid)

\* The events task t sent, and the primary ones among them.
SentBy(t) == SelectSeq(events, LAMBDA e : e.by = t)
PrimaryBy(t) == SelectSeq(events, LAMBDA e : e.by = t /\ e.msg.type # "TurnDiff")
TurnDiffsBy(t) == SelectSeq(events, LAMBDA e : e.by = t /\ e.msg.type = "TurnDiff")

\* How many emit calls of task t have sent their event.
EmitsDone(t) ==
    IF pc[t] \in {"new", "ready", "begin_lock", "begin_locked", "begin_unlock", "begin_send"}
    THEN 0
    ELSE IF pc[t] \in {"running", "end_send"} THEN 1 ELSE 2

\* finish was called for task t (its locals are set).
InFinish(t) == pc[t] \in {"end_send", "diff_lock", "diff_locked", "diff_unlock",
                          "diff_send", "done"}

\* finish sent the end event of task t.
EndSent(t) == pc[t] \in {"diff_lock", "diff_locked", "diff_unlock", "diff_send", "done"}

IsExec(t) == pc[t] # "new" /\ emitter[t].variant \in {"Shell", "UnifiedExec"}
IsPatch(t) == pc[t] # "new" /\ emitter[t].variant = "ApplyPatch"
HasTracker(t) == pc[t] # "new" /\ ctx[t].turn_diff_tracker # None

\* C1: for every invocation, the primary events sent for its call id are the
\* begin event and then the end event: none before begin sent its event, the
\* begin event alone until finish sent its event, and exactly [begin, end]
\* from then on, whatever the other tasks do in between.
C1_BeginThenEnd ==
    \A t \in Tasks :
        LET p == PrimaryOf(CallId(t)) IN
        /\ Len(p) = EmitsDone(t)
        /\ Len(p) >= 1 => p[1].msg.type \in BeginTypes /\ p[1].by = t
        /\ Len(p) = 2 => p[2].msg.type \in EndTypes /\ p[2].by = t
        /\ pc[t] = "done" =>
              /\ Len(p) = 2
              /\ p[1].msg.type \in BeginTypes
              /\ p[2].msg.type \in EndTypes

\* Two invocations ran begin and finish to the end, their events interleaved.
C1_Witness ==
    /\ \A t \in Tasks : pc[t] = "done"
    /\ Len(events) >= 4
    /\ events[1].by # events[2].by
    /\ events[2].msg.type \in BeginTypes
    /\ \E t \in Tasks : IsPatch(t) /\ stage[t].tag = "Failure"

IdentFields(m) == <<m.call_id, m.turn_id, m.command, m.cwd, m.parsed_cmd, m.source>>

\* C2: the command-begin and command-end events of one Shell / UnifiedExec
\* emitter and context carry the same call_id, turn_id, command, cwd,
\* parsed_cmd and source, which are those of the emitter as constructed and
\* of the context, for every stage that produced the end event.
C2_SameMetadata ==
    \A t \in Tasks :
        IsExec(t) =>
            LET p == PrimaryBy(t) IN
            /\ \A i \in 1..Len(p) :
                  IdentFields(p[i].msg) =
                     <<ctx[t].call_id, ctx[t].turn.sub_id, emitter[t].command,
                       emitter[t].cwd, parse_command(emitter[t].command),
                       emitter[t].source>>
            /\ \A i, j \in 1..Len(p) : IdentFields(p[i].msg) = IdentFields(p[j].msg)

\* A UnifiedExec invocation not started by the agent ended with a message
\* failure, a Shell one with an output; both events of each were sent.
C2_Witness ==
    \E t, u \in Tasks :
        /\ IsExec(t) /\ emitter[t].variant = "UnifiedExec" /\ pc[t] = "done"
        /\ stage[t].tag = "Failure" /\ stage[t].failure.tag = "Message"
        /\ IsExec(u) /\ emitter[u].variant = "Shell" /\ emitter[u].source # "Agent"
        /\ pc[u] = "done" /\ stage[u].tag = "Success"
        /\ Len(PrimaryBy(t)) = 2 /\ Len(PrimaryBy(u)) = 2

ExpectedType(variant, stageTag) ==
    IF variant = "ApplyPatch"
    THEN (IF stageTag = "Begin" THEN "PatchApplyBegin" ELSE "PatchApplyEnd")
    ELSE (IF stageTag = "Begin" THEN "ExecCommandBegin" ELSE "ExecCommandEnd")

\* C3: emit sends exactly one primary event for every emitter variant and
\* stage, of the kind the pair calls for: where a task is about to send, the
\* matching arm sends one event of the expected type, and the primary events
\* a task has sent are one per emit call made, each of the expected type.
C3_EmitTotal ==
    \A t \in Tasks :
        /\ pc[t] \in {"begin_send", "end_send"} =>
              LET es == emit(emitter[t], ctx[t], stage[t]) IN
              /\ Len(es) = 1
              /\ es[1].type = ExpectedType(emitter[t].variant, stage[t].tag)
        /\ LET p == PrimaryBy(t) IN
           /\ Len(p) = EmitsDone(t)
           /\ Len(p) >= 1 => p[1].msg.type = ExpectedType(emitter[t].variant, "Begin")
           /\ Len(p) = 2 => p[2].msg.type = ExpectedType(emitter[t].variant, stage[t].tag)

\* An ApplyPatch emitter emitted Failure(Message) and a Shell emitter
\* Failure(Output).
C3_Witness ==
    \E t, u \in Tasks :
        /\ IsPatch(t) /\ EndSent(t)
        /\ stage[t].tag = "Failure" /\ stage[t].failure.tag = "Message"
        /\ IsExec(u) /\ emitter[u].variant = "Shell" /\ pc[u] = "done"
        /\ stage[u].tag = "Failure" /\ stage[u].failure.tag = "Output"

\* The text of a Result<String, FunctionCallError>.
ResultText(r) == IF r.tag = "Ok" THEN r.value ELSE r.err.message

\* The text the data of a stage stands for towards the model.
StageText(st) ==
    IF st.tag = "Success" THEN format_exec_output_for_model(st.output)
    ELSE IF st.failure.tag = "Output" THEN format_exec_output_for_model(st.failure.output)
    ELSE st.failure.message

\* The end event task t sent.
EndEvent(t) == PrimaryBy(t)[2].msg

GetDiffCalls(t) == SelectSeq(trackerCalls[t], LAMBDA c : c.op = "get_unified_diff")

\* C4: finish emits before it returns: once finish has returned, the end
\* event of the call was sent, an ApplyPatch call with a tracker has queried
\* it and sent the turn-diff event for a diff it got, and the text of the
\* returned result is the text / output of the emitted stage; finish has not
\* returned anything before that.
C4_EmitBeforeReturn ==
    \A t \in Tasks :
        /\ returned[t] # None <=> pc[t] = "done"
        /\ returned[t] # None =>
              /\ Len(PrimaryBy(t)) = 2
              /\ EndEvent(t).type \in EndTypes
              /\ EndEvent(t) = emit(emitter[t], ctx[t], stage[t])[1]
              /\ returned[t] = result[t]
              /\ ResultText(returned[t]) = StageText(stage[t])
              /\ IsPatch(t) /\ HasTracker(t) =>
                    /\ Len(GetDiffCalls(t)) = 1
                    /\ unified_diff[t] = GetDiffCalls(t)[1].answer
                    /\ unified_diff[t].tag = "Ok" /\ unified_diff[t].value.tag = "Some" =>
                          /\ Len(TurnDiffsBy(t)) = 1
                          /\ TurnDiffsBy(t)[1].msg.unified_diff = unified_diff[t].value.value

\* finish returned for an ApplyPatch call whose tracker answered a diff, and
\* for a UnifiedExec call that timed out.
C4_Witness ==
    \E t, u \in Tasks :
        /\ IsPatch(t) /\ HasTracker(t) /\ returned[t] # None
        /\ unified_diff[t].tag = "Ok" /\ unified_diff[t].value.tag = "Some"
        /\ IsExec(u) /\ returned[u] # None /\ returned[u].tag = "Err"
        /\ stage[u].tag = "Failure" /\ stage[u].failure.tag = "Output"

\* C5: on Ok(output), finish returns a non-error text exactly when the exit
\* code is 0 and otherwise the same formatted text as a respond-to-model
\* error; the emitted stage is Success with the raw output in both cases, and
\* the end event has the output's exit code, stdout and stderr.
C5_SuccessOutcome ==
    \A t \in Tasks :
        InFinish(t) /\ out[t].tag = "Ok" =>
            LET o == out[t].output
                text == format_exec_output_for_model(o) IN
            /\ stage[t] = StageSuccess(o)
            /\ result[t].tag = "Ok" <=> o.exit_code = 0
            /\ result[t] = IF o.exit_code = 0 THEN Ok(text) ELSE RespondToModel(text)
            /\ pc[t] = "done" => returned[t] = result[t]
            /\ EndSent(t) =>
                  /\ EndEvent(t).stdout = o.stdout.text
                  /\ EndEvent(t).stderr = o.stderr.text
                  /\ IsExec(t) =>
                        /\ EndEvent(t).type = "ExecCommandEnd"
                        /\ EndEvent(t).exit_code = o.exit_code
                        /\ EndEvent(t).aggregated_output = o.aggregated_output.text

\* A shell command ended with exit code 2: an error result, and a
\* command-end event with exit code 2 and the real streams; another command
\* ended with exit code 0.
C5_Witness ==
    \E t, u \in Tasks :
        /\ IsExec(t) /\ emitter[t].variant = "Shell" /\ pc[t] = "done"
        /\ out[t].tag = "Ok" /\ out[t].output.exit_code = 2
        /\ returned[t].tag = "Err"
        /\ EndEvent(t).exit_code = 2 /\ EndEvent(t).stderr = "boom"
        /\ pc[u] = "done" /\ out[u].tag = "Ok" /\ returned[u].tag = "Ok"

IsSandboxOut(o) ==
    o.tag = "Err" /\ o.err.tag = "Codex" /\ o.err.err.tag = "Sandbox"
      /\ o.err.err.err.tag \in {"Timeout", "Denied"}

\* C6: on a sandbox Timeout or Denied error, finish emits Failure(Output)
\* with the error's output and returns the formatted output as an error; the
\* end event has the output's stdout and stderr and, for a command-end
\* event, its aggregated output, exit code and duration, whatever the exit
\* code is.
C6_SandboxOutcome ==
    \A t \in Tasks :
        InFinish(t) /\ IsSandboxOut(out[t]) =>
            LET o == out[t].err.err.err.output IN
            /\ stage[t] = StageFailure(FailureOutput(o))
            /\ result[t] = RespondToModel(format_exec_output_for_model(o))
            /\ pc[t] = "done" => returned[t] = result[t]
            /\ EndSent(t) =>
                  /\ EndEvent(t).stdout = o.stdout.text
                  /\ EndEvent(t).stderr = o.stderr.text
                  /\ IsExec(t) =>
                        /\ EndEvent(t).aggregated_output = o.aggregated_output.text
                        /\ EndEvent(t).exit_code = o.exit_code
                        /\ EndEvent(t).duration = o.duration

\* A command timed out with an output of exit code 0 and another was denied
\* with a nonzero one; both calls finished.
C6_Witness ==
    \E t, u \in Tasks :
        /\ IsExec(t) /\ pc[t] = "done" /\ IsSandboxOut(out[t])
        /\ out[t].err.err.err.tag = "Timeout" /\ out[t].err.err.err.output.exit_code = 0
        /\ EndEvent(t).duration = 5 /\ returned[t].tag = "Err"
        /\ IsExec(u) /\ pc[u] = "done" /\ IsSandboxOut(out[u])
        /\ out[u].err.err.err.tag = "Denied" /\ EndEvent(u).exit_code = 1

IsOtherCodexErr(o) == o.tag = "Err" /\ o.err.tag = "Codex" /\ ~IsSandboxOut(o)

\* C7: on any other Codex error, finish emits Failure(Message) with the
\* message "execution error: <error>" and returns that message as an error;
\* a command-end event then has exit code -1, duration 0, and the message as
\* stderr, aggregated output and formatted output.
C7_InternalError ==
    \A t \in Tasks :
        InFinish(t) /\ IsOtherCodexErr(out[t]) =>
            LET m == "execution error: " \o DebugFmt(out[t].err.err) IN
            /\ stage[t] = StageFailure(FailureMessage(m))
            /\ result[t] = RespondToModel(m)
            /\ pc[t] = "done" => returned[t] = result[t]
            /\ EndSent(t) /\ IsExec(t) =>
                  /\ EndEvent(t).type = "ExecCommandEnd"
                  /\ EndEvent(t).exit_code = -1
                  /\ EndEvent(t).duration = 0
                  /\ EndEvent(t).stderr = m
                  /\ EndEvent(t).aggregated_output = m
                  /\ EndEvent(t).formatted_output = m

\* A Shell call and a UnifiedExec call both finished on an internal error,
\* one of them a sandbox error that carries no output.
C7_Witness ==
    \E t, u \in Tasks :
        /\ IsExec(t) /\ emitter[t].variant = "Shell" /\ pc[t] = "done"
        /\ IsOtherCodexErr(out[t]) /\ out[t].err.err.tag = "Sandbox"
        /\ EndEvent(t).stderr = "execution error: Sandbox(Signal(9))"
        /\ IsExec(u) /\ emitter[u].variant = "UnifiedExec" /\ pc[u] = "done"
        /\ IsOtherCodexErr(out[u]) /\ out[u].err.err.tag = "Interrupted"

IsRejected(o) == o.tag = "Err" /\ o.err.tag = "Rejected"

\* C8: on a rejection, the text becomes "exec command rejected by user"
\* exactly when it is "rejected by user" and stays as it is otherwise; that
\* text is the message of the emitted Failure(Message) stage, the text of the
\* returned error and the stderr of the end event, for every emitter variant.
C8_Rejection ==
    \A t \in Tasks :
        InFinish(t) /\ IsRejected(out[t]) =>
            LET m == IF out[t].err.msg = "rejected by user"
                     THEN "exec command rejected by user" ELSE out[t].err.msg IN
            /\ stage[t] = StageFailure(FailureMessage(m))
            /\ result[t] = RespondToModel(m)
            /\ pc[t] = "done" => returned[t] = result[t]
            /\ EndSent(t) =>
                  /\ EndEvent(t).stderr = m
                  /\ IsExec(t) =>
                        /\ EndEvent(t).aggregated_output = m
                        /\ EndEvent(t).formatted_output = m

\* One call was rejected with the canonical text and another with a
\* different one; both finished.
C8_Witness ==
    \E t, u \in Tasks :
        /\ pc[t] = "done" /\ IsRejected(out[t]) /\ out[t].err.msg = "rejected by user"
        /\ ResultText(returned[t]) = "exec command rejected by user"
        /\ EndEvent(t).stderr = "exec command rejected by user"
        /\ IsPatch(u) /\ pc[u] = "done" /\ IsRejected(out[u])
        /\ out[u].err.msg # "rejected by user"
        /\ EndEvent(u).stderr = out[u].err.msg

\* C9: for an ApplyPatch emitter with a tracker, begin calls on_patch_begin
\* with the emitter's changes under the tracker lock and has released the
\* lock when it sends the patch-begin event, so the tracker call of a call
\* precedes its patch-begin event; the event carries the emitter's changes
\* and auto_approved flag.
C9_NotifyBeforeBegin ==
    \A t \in Tasks :
        IsPatch(t) /\ HasTracker(t) =>
            /\ pc[t] = "begin_send" \/ EmitsDone(t) >= 1 =>
                  /\ Len(trackerCalls[t]) >= 1
                  /\ trackerCalls[t][1] = [op |-> "on_patch_begin",
                                           changes |-> emitter[t].changes, guard |-> t]
                  /\ DOMAIN emitter[t].changes \subseteq tracker
            /\ pc[t] = "begin_send" => lock # t
            /\ pc[t] \in {"ready", "begin_lock", "begin_locked"} =>
                  trackerCalls[t] = <<>> /\ SentBy(t) = <<>>
            /\ Len(SentBy(t)) >= 1 =>
                  SentBy(t)[1].msg = [type |-> "PatchApplyBegin",
                                      call_id |-> ctx[t].call_id,
                                      auto_approved |-> emitter[t].auto_approved,
                                      changes |-> emitter[t].changes]

\* Two ApplyPatch calls share the tracker; one has sent its patch-begin
\* event while the other holds the lock for its notification.
C9_Witness ==
    \E t, u \in Tasks :
        /\ t # u
        /\ IsPatch(t) /\ HasTracker(t) /\ pc[t] = "running"
        /\ emitter[t].changes = UpdateTwo /\ ~emitter[t].auto_approved
        /\ IsPatch(u) /\ HasTracker(u) /\ pc[u] = "begin_unlock" /\ lock = u

\* C10: for an ApplyPatch emitter with a tracker, the tracker is queried
\* once per patch-end, after the patch-end event was sent; a non-empty diff
\* is followed by exactly one turn-diff event with that text right after the
\* call's patch-end event, and no diff or an error by no turn-diff event.
C10_TurnDiff ==
    \A t \in Tasks :
        IsPatch(t) /\ HasTracker(t) =>
            /\ Len(GetDiffCalls(t)) <= 1
            /\ Len(GetDiffCalls(t)) = 1 =>
                  /\ EndSent(t)
                  /\ Len(SentBy(t)) >= 2
                  /\ SentBy(t)[2].msg.type = "PatchApplyEnd"
            /\ pc[t] = "done" =>
                  /\ Len(GetDiffCalls(t)) = 1
                  /\ unified_diff[t] = GetDiffCalls(t)[1].answer
                  /\ (/\ unified_diff[t].tag = "Ok"
                      /\ unified_diff[t].value.tag = "Some"
                      /\ unified_diff[t].value.value # "") =>
                        /\ Len(SentBy(t)) = 3
                        /\ SentBy(t)[2].msg.type = "PatchApplyEnd"
                        /\ SentBy(t)[3].msg = TurnDiffEvent(unified_diff[t].value.value)
                  /\ unified_diff[t] \in {DiffErr, DiffOk(None)} =>
                        /\ Len(SentBy(t)) = 2
                        /\ TurnDiffsBy(t) = <<>>
            /\ Len(TurnDiffsBy(t)) <= 1

\* A patch with two file changes succeeded and the tracker answered a
\* non-empty diff: patch-begin, patch-end(success), turn-diff; for another
\* patch the tracker answered an error.
C10_Witness ==
    \E t, u \in Tasks :
        /\ IsPatch(t) /\ HasTracker(t) /\ pc[t] = "done"
        /\ emitter[t].changes = UpdateTwo
        /\ Len(SentBy(t)) = 3
        /\ SentBy(t)[1].msg.type = "PatchApplyBegin"
        /\ SentBy(t)[2].msg.type = "PatchApplyEnd" /\ SentBy(t)[2].msg.success
        /\ SentBy(t)[3].msg.type = "TurnDiff" /\ SentBy(t)[3].msg.unified_diff # ""
        /\ IsPatch(u) /\ HasTracker(u) /\ pc[u] = "done"
        /\ unified_diff[u] = DiffErr /\ Len(SentBy(u)) = 2

\* A task stands at a send_event call (about to send, or suspended in it).
AtSend(t) == pc[t] \in {"begin_send", "end_send", "diff_send"}

\* C11: the tracker lock is never held across an event send: a task that is
\* at, or suspended in, a send_event call does not own the tracker guard.
C11_NoLockAcrossSend ==
    \A t \in Tasks : AtSend(t) => lock # t

\* An ApplyPatch call stands at the send of its turn-diff event, having
\* taken and released the lock twice, while another call holds the lock.
C11_Witness ==
    \E t, u \in Tasks :
        /\ t # u
        /\ IsPatch(t) /\ HasTracker(t) /\ pc[t] = "diff_send"
        /\ Len(trackerCalls[t]) = 2
        /\ lock = u /\ pc[u] = "begin_locked"

\* The steps of task t that touch the tracker: taking the lock, the call
\* made under it, and dropping the guard.
TrackerStep(t) ==
    \/ BeginLock(t)
    \/ BeginNotify(t)
    \/ BeginUnlock(t)
    \/ DiffLock(t)
    \/ DiffRead(t)
    \/ DiffUnlock(t)

\* The sends of task t.
SendStep(t) ==
    \/ BeginSend(t)
    \/ EndSend(t)
    \/ DiffSend(t)

\* Tasks are scheduled fairly while they are not in a send; a send may stay
\* suspended forever (a slow or stalled event consumer), and a caller need
\* not go on to call begin or finish.
SpecStalledSend ==
    Init /\ [][Next]_vars /\ \A t \in Tasks : WF_vars(TrackerStep(t))

\* Task t has requested the tracker lock and its tracker call is still to be
\* made: it waits for the lock, or holds it with the call not made yet.
CallPending(t) == pc[t] \in {"begin_lock", "begin_locked", "diff_lock", "diff_locked"}

\* C12: a stalled event consumer does not block patch bookkeeping: with
\* any task suspended in a send for ever, a task that requests the tracker
\* lock in begin or in emit_patch_end eventually holds it and has made its
\* on_patch_begin or get_unified_diff call; no task stays for ever with a
\* requested tracker call pending.
C12_StalledSendDoesNotBlock ==
    \A t \in Tasks : []<>~CallPending(t)

\* One ApplyPatch call stays at the send of its patch-end event while another
\* one, sharing the tracker, has read the diff under the lock.
C12_Witness ==
    \E t, u \in Tasks :
        /\ t # u
        /\ IsPatch(u) /\ HasTracker(u) /\ pc[u] = "end_send"
        /\ IsPatch(t) /\ HasTracker(t) /\ pc[t] = "diff_unlock" /\ lock = t
        /\ Len(GetDiffCalls(t)) = 1

\* C13: the patch-end event of an ApplyPatch emitter carries the context's
\* call id; for Success and Failure(Output) it carries the output's stdout
\* and stderr and success = (exit_code = 0); for Failure(Message) it
\* carries an empty stdout, the message as stderr and success = FALSE.
C13_PatchEndFields ==
    \A t \in Tasks :
        IsPatch(t) /\ EndSent(t) =>
            LET e == EndEvent(t) IN
            /\ e.type = "PatchApplyEnd"
            /\ e.call_id = ctx[t].call_id
            /\ stage[t].tag = "Success" =>
                  /\ e.stdout = stage[t].output.stdout.text
                  /\ e.stderr = stage[t].output.stderr.text
                  /\ e.success = (stage[t].output.exit_code = 0)
            /\ stage[t].tag = "Failure" /\ stage[t].failure.tag = "Output" =>
                  /\ e.stdout = stage[t].failure.output.stdout.text
                  /\ e.stderr = stage[t].failure.output.stderr.text
                  /\ e.success = (stage[t].failure.output.exit_code = 0)
            /\ stage[t].tag = "Failure" /\ stage[t].failure.tag = "Message" =>
                  /\ e.stdout = ""
                  /\ e.stderr = stage[t].failure.message
                  /\ e.success = FALSE

\* One patch ended in Failure(Output) with an output of exit code 0, another
\* in Failure(Message).
C13_Witness ==
    \E t, u \in Tasks :
        /\ IsPatch(t) /\ EndSent(t)
        /\ stage[t].tag = "Failure" /\ stage[t].failure.tag = "Output"
        /\ stage[t].failure.output.exit_code = 0 /\ EndEvent(t).success
        /\ IsPatch(u) /\ EndSent(u)
        /\ stage[u].tag = "Failure" /\ stage[u].failure.tag = "Message"
        /\ ~EndEvent(u).success /\ EndEvent(u).stdout = ""

\* An event with its call id blanked, to compare the events of two calls.
WithoutCallId(e) == [e EXCEPT !.call_id = ""]

\* C14: a diff-computation error is swallowed: for an ApplyPatch call the
\* patch-end event sent and the value finish returned are determined by the
\* emitter, the call id and the execution result alone; two calls with the
\* same emitter and result send the same patch-end event (up to the call id)
\* and return the same value whether a tracker is attached or not and
\* whatever it answers (error, no diff, a diff).
C14_DiffErrorSwallowed ==
    /\ \A t \in Tasks :
          IsPatch(t) /\ pc[t] = "done" =>
              /\ returned[t] = finish(out[t]).result
              /\ EndEvent(t) =
                    emit(emitter[t], ToolEventCtx(TurnId, ctx[t].call_id, None),
                         finish(out[t]).event)[1]
    /\ \A t, u \in Tasks :
          (/\ IsPatch(t) /\ pc[t] = "done"
           /\ IsPatch(u) /\ pc[u] = "done"
           /\ emitter[t] = emitter[u] /\ out[t] = out[u]) =>
              /\ returned[t] = returned[u]
              /\ WithoutCallId(EndEvent(t)) = WithoutCallId(EndEvent(u))

\* Two patches with the same emitter and execution result finished, one
\* whose tracker answered an error and one without a tracker.
C14_Witness ==
    \E t, u \in Tasks :
        /\ IsPatch(t) /\ pc[t] = "done" /\ HasTracker(t) /\ unified_diff[t] = DiffErr
        /\ IsPatch(u) /\ pc[u] = "done" /\ ~HasTracker(u)
        /\ emitter[t] = emitter[u] /\ out[t] = out[u]
        /\ returned[t] = returned[u]

IsMessageFailure(t) ==
    InFinish(t) /\ stage[t].tag = "Failure" /\ stage[t].failure.tag = "Message"

\* C15 as stated: on a Failure(Message) stage of a Shell or UnifiedExec
\* emitter, stdout, stderr and aggregated output of the command-end event
\* all equal the message.
C15_Original ==
    \A t \in Tasks :
        IsExec(t) /\ IsMessageFailure(t) /\ EndSent(t) =>
            /\ EndEvent(t).stdout = stage[t].failure.message
            /\ EndEvent(t).stderr = stage[t].failure.message
            /\ EndEvent(t).aggregated_output = stage[t].failure.message

\* C15 (amended): on a Failure(Message) stage of a Shell or UnifiedExec
\* emitter, the message is the stderr, the aggregated output and the
\* formatted output of the command-end event, and its stdout is empty.
C15_MessagePayload ==
    \A t \in Tasks :
        IsExec(t) /\ IsMessageFailure(t) /\ EndSent(t) =>
            /\ EndEvent(t).stdout = ""
            /\ EndEvent(t).stderr = stage[t].failure.message
            /\ EndEvent(t).aggregated_output = stage[t].failure.message
            /\ EndEvent(t).formatted_output = stage[t].failure.message

\* A Shell call ended on a rejection and a UnifiedExec call on an internal
\* error; both command-end events were sent.
C15_Witness ==
    \E t, u \in Tasks :
        /\ IsExec(t) /\ emitter[t].variant = "Shell" /\ IsMessageFailure(t) /\ EndSent(t)
        /\ IsRejected(out[t]) /\ EndEvent(t).stderr # ""
        /\ IsExec(u) /\ emitter[u].variant = "UnifiedExec" /\ IsMessageFailure(u)
        /\ EndSent(u) /\ IsOtherCodexErr(out[u])

\* C16: a turn-diff event is sent only for a non-empty diff: whatever the
\* tracker answers (an error, no diff, an empty text, a non-empty text), no
\* turn-diff event with an empty unified_diff is in the event stream.
C16_NoEmptyTurnDiff ==
    \A i \in 1..Len(events) :
        events[i].msg.type = "TurnDiff" => events[i].msg.unified_diff # ""

\* The tasks inside a critical section of the tracker (between taking the
\* lock and dropping the guard).
Holders == {t \in Tasks : pc[t] \in {"begin_locked", "begin_unlock",
                                      "diff_locked", "diff_unlock"}}

\* How many tracker calls task t has made by the place it stands at, if
\* every acquisition of the lock covers exactly one call.
CallsDue(t) ==
    IF pc[t] \in {"new", "ready", "begin_lock", "begin_locked"} THEN 0
    ELSE IF ~(IsPatch(t) /\ HasTracker(t)) THEN 0
    ELSE IF pc[t] \in {"begin_unlock", "begin_send", "running", "end_send",
                       "diff_lock", "diff_locked"} THEN 1
    ELSE 2

\* C17: every on_patch_begin and get_unified_diff call is made by a task
\* that holds the tracker lock; at most one task is inside a critical
\* section at any time, and it is the owner of the lock; each acquisition
\* covers exactly one tracker call: none made yet right after the lock is
\* taken, one more when the guard is about to be dropped.
C17_LockDiscipline ==
    /\ Cardinality(Holders) <= 1
    /\ \A t \in Tasks : t \in Holders <=> lock = t
    /\ lock = 0 <=> Holders = {}
    /\ \A t \in Tasks :
          /\ Len(trackerCalls[t]) = CallsDue(t)
          /\ \A i \in 1..Len(trackerCalls[t]) :
                /\ trackerCalls[t][i].guard = t
                /\ trackerCalls[t][i].op =
                      (IF i = 1 THEN "on_patch_begin" ELSE "get_unified_diff")

\* One ApplyPatch call is inside its second critical section, having made
\* both tracker calls, while another waits for the lock in begin.
C17_Witness ==
    \E t, u \in Tasks :
        /\ t # u
        /\ pc[t] = "diff_unlock" /\ lock = t /\ Len(trackerCalls[t]) = 2
        /\ pc[u] = "begin_lock" /\ trackerCalls[u] = <<>>

\* C18: for an ApplyPatch call, finish returns a non-error text exactly when
\* the patch-end event it emitted has success = TRUE; whenever finish
\* returns an error, the patch-end event reports success = FALSE.
C18_ResultMatchesSuccess ==
    \A t \in Tasks :
        IsPatch(t) /\ pc[t] = "done" =>
            (returned[t].tag = "Ok" <=> EndEvent(t).success)

ExecTypes == {"ExecCommandBegin", "ExecCommandEnd"}
TrackerPcs == {"begin_lock", "begin_locked", "begin_unlock",
               "diff_lock", "diff_locked", "diff_unlock", "diff_send"}

\* C19: a Shell or UnifiedExec invocation leaves the tracker alone, also
\* when one is attached to its context: it never waits for or owns the
\* lock, makes no tracker call and sends only command-begin / command-end
\* events; an ApplyPatch invocation without a tracker makes no tracker call
\* and sends no turn-diff event.
C19_TrackerUntouched ==
    \A t \in Tasks :
        /\ IsExec(t) =>
              /\ pc[t] \notin TrackerPcs
              /\ lock # t
              /\ trackerCalls[t] = <<>>
              /\ \A i \in 1..Len(SentBy(t)) : SentBy(t)[i].msg.type \in ExecTypes
        /\ IsPatch(t) /\ ~HasTracker(t) =>
              /\ pc[t] \notin TrackerPcs
              /\ lock # t
              /\ trackerCalls[t] = <<>>
              /\ TurnDiffsBy(t) = <<>>

\* A Shell call with a tracker attached and an ApplyPatch call without one
\* both ran begin and finish to the end.
C19_Witness ==
    \E t, u \in Tasks :
        /\ IsExec(t) /\ emitter[t].variant = "Shell" /\ HasTracker(t) /\ pc[t] = "done"
        /\ Len(SentBy(t)) = 2
        /\ IsPatch(u) /\ ~HasTracker(u) /\ pc[u] = "done"
        /\ Len(SentBy(u)) = 2

\* Tasks are scheduled fairly and the transport completes every send; a
\* caller need not go on to call begin or finish.
SpecFair ==
    Init /\ [][Next]_vars
         /\ \A t \in Tasks : WF_vars(TrackerStep(t)) /\ WF_vars(SendStep(t))

\* Task t is not inside begin or finish: it has not called begin, or begin
\* returned and finish was not called yet, or finish returned its result.
Returned(t) ==
    \/ pc[t] \in {"new", "ready", "running"}
    \/ pc[t] = "done" /\ returned[t] # None

\* A task waiting for the lock can be served: the lock is free, or its owner
\* is inside a critical section that it leaves without waiting for anyone.
NoLockDeadlock ==
    \A t \in Tasks :
        pc[t] \in {"begin_lock", "diff_lock"} =>
            \/ lock = 0 /\ ENABLED TrackerStep(t)
            \/ lock \in Tasks /\ lock # t /\ ENABLED TrackerStep(lock)

\* C20: with concurrent invocations, fair scheduling and sends that
\* complete, every begin and every finish that was called returns: no state
\* is a deadlock on the tracker lock and no task waits for it for ever.
C20_Termination ==
    /\ []NoLockDeadlock
    /\ \A t \in Tasks : []<>Returned(t)

\* Two ApplyPatch calls sharing the tracker both returned from finish after
\* each went through both critical sections.
C20_Witness ==
    /\ \A t \in Tasks :
          /\ IsPatch(t) /\ HasTracker(t) /\ pc[t] = "done"
          /\ Len(trackerCalls[t]) = 2
    /\ lock = 0

====
